---- MODULE Spec2Model ----
(***************************************************************************)
(* Pattern parsing and AST building (lib/Parse/ParsePattern.cpp).          *)
(*                                                                         *)
(* The parser is a set of recursive operators over a token sequence and a  *)
(* parser state P = [pos, diags, skips]; the state machine feeds bounded   *)
(* token sequences and pattern trees to the four parser entry points and   *)
(* to checkFullyTyped.                                                     *)
(***************************************************************************)
EXTENDS Integers, Sequences, FiniteSets, TLC

VARIABLES input, op, P, status, pattern, params, type, failed, ghost, runs, prev

vars == <<input, op, P, status, pattern, params, type, failed, ghost, runs, prev>>

(***************************************************************************)
(* Bounds                                                                  *)
(***************************************************************************)
MaxElts == 2        \* elements per generated tuple-pattern input
MaxClauses == 3     \* parameter clauses per generated signature input
MaxTreeElts == 2    \* elements per tuple node of a generated pattern tree
MaxRuns == 2        \* checkFullyTyped runs on one tree

(***************************************************************************)
(* Tokens.  A token is its text; punctuation has its own kind, every other *)
(* text is tok::identifier.  " (" is tok::l_paren_space.                   *)
(***************************************************************************)
Punct == {"(", " (", ")", ",", ":", "=", "->", "eof"}

Tok(ts, p) == IF p <= Len(ts) THEN ts[p] ELSE "eof"

IsLParen(t) == t = "(" \/ t = " ("

IsIdentifier(t) == t \notin Punct

consumeToken(Q) == [Q EXCEPT !.pos = @ + 1]

diagnose(Q, loc, id) == [Q EXCEPT !.diags = Append(@, [id |-> id, loc |-> loc])]

RECURSIVE SkipPos(_, _, _)
SkipPos(ts, p, k) ==
  IF Tok(ts, p) = "eof" THEN p
  ELSE IF Tok(ts, p) = k THEN p + 1
  ELSE SkipPos(ts, p + 1, k)

skipUntil(ts, Q, k) == [Q EXCEPT !.pos = SkipPos(ts, @, k), !.skips = @ + 1]

(***************************************************************************)
(* Types                                                                   *)
(***************************************************************************)
NullType == [k |-> "Null"]

NameType(n) == [k |-> "Name", name |-> n]

TupleTypeGet(typeElts) == [k |-> "Tuple", elts |-> typeElts]

TupleTypeGetEmpty == TupleTypeGet(<<>>)

FunctionTypeGet(in, out) == [k |-> "Fn", in |-> in, out |-> out]

TupleTypeElt(ty, name, init) == [ty |-> ty, name |-> name, init |-> init]

(***************************************************************************)
(* Patterns                                                                *)
(***************************************************************************)
nullptr == "nullptr"

NoPattern == [kind |-> "None"]

AnyPattern(loc) == [kind |-> "Any", loc |-> loc, ty |-> NullType]

NamedPattern(ident, loc) == [kind |-> "Named", name |-> ident, loc |-> loc, ty |-> NullType]

TypedPattern(sub, ty) == [kind |-> "Typed", sub |-> sub, ty |-> ty]

ParenPattern(lp, sub) == [kind |-> "Paren", loc |-> lp, sub |-> sub, ty |-> NullType]

TuplePatternCreate(lp, elts) == [kind |-> "Tuple", loc |-> lp, elts |-> elts, ty |-> NullType]

TuplePatternElt(pat, init) == [pat |-> pat, init |-> init]

getBoundName(p) ==
  IF p.kind = "Named" THEN p.name
  ELSE IF p.kind = "Typed" /\ p.sub.kind = "Named" THEN p.sub.name
  ELSE ""

(***************************************************************************)
(* External parsers                                                        *)
(***************************************************************************)
Unresolved == {"undef"}

parseType(ts, Q) ==
  LET t == Tok(ts, Q.pos) IN
  IF IsIdentifier(t)
    THEN [fail |-> FALSE, type |-> NameType(t), P |-> consumeToken(Q)]
    ELSE [fail |-> TRUE, type |-> NullType, P |-> diagnose(Q, Q.pos, "expected_type")]

parseExpr(ts, Q, id) ==
  LET t == Tok(ts, Q.pos) IN
  IF IsIdentifier(t)
    THEN [status |-> IF t \in Unresolved THEN "sema" ELSE "ok", expr |-> t,
          P |-> consumeToken(Q)]
    ELSE [status |-> "parse", expr |-> nullptr, P |-> diagnose(Q, Q.pos, id)]

(***************************************************************************)
(* checkFullyTyped: returns [fail, pat, diags]; fail = TRUE is the C++     *)
(* `return true`, pat is the tree after the in-place setType calls.        *)
(***************************************************************************)
setType(p, ty) == [p EXCEPT !.ty = ty]

\* Variant: a wildcard leaf is accepted without an annotation.
UntypedLeaf_AcceptAny(p, d) ==
  IF p.kind = "Any" THEN [fail |-> FALSE, pat |-> p, diags |-> d]
  ELSE [fail |-> TRUE, pat |-> p,
        diags |-> Append(d, [id |-> "untyped_pattern_in_function_signature", loc |-> p.loc])]

UntypedLeaf(p, d) ==
  [fail |-> TRUE, pat |-> p,
   diags |-> Append(d, [id |-> "untyped_pattern_in_function_signature", loc |-> p.loc])]

TypedCase(p, d) == [fail |-> FALSE, pat |-> p, diags |-> d]

\* Variant: the component loses the bound name.
FieldTypeElt_NoName(subpattern, elt) ==
  TupleTypeElt(subpattern.ty, "", elt.init)

FieldTypeElt(subpattern, elt) ==
  TupleTypeElt(subpattern.ty, getBoundName(subpattern), elt.init)

\* Variant: the components are added to those of the type already attached.
SetTupleType_Accumulate(tuple, typeElts) ==
  IF tuple.ty.k = "Tuple"
    THEN setType(tuple, TupleTypeGet(tuple.ty.elts \o typeElts))
    ELSE setType(tuple, TupleTypeGet(typeElts))

SetTupleType(tuple, typeElts) == setType(tuple, TupleTypeGet(typeElts))

RECURSIVE checkFullyTyped(_, _), checkTupleFields(_, _, _, _), checkedField(_, _, _, _)

\* The loop body after the recursive call on field i returned r.
checkedField(tuple, i, typeElts, r) ==
  IF r.fail
    THEN [fail |-> TRUE, pat |-> [tuple EXCEPT !.elts[i].pat = r.pat], diags |-> r.diags]
    ELSE checkTupleFields([tuple EXCEPT !.elts[i].pat = r.pat], i + 1,
                          Append(typeElts, FieldTypeElt(r.pat, tuple.elts[i])), r.diags)

checkTupleFields(tuple, i, typeElts, d) ==
  IF i > Len(tuple.elts)
    THEN [fail |-> FALSE, pat |-> SetTupleType(tuple, typeElts), diags |-> d]
    ELSE checkedField(tuple, i, typeElts, checkFullyTyped(tuple.elts[i].pat, d))

\* The Paren case after the recursive call on the sub-pattern returned r.
checkedParen(p, r) ==
  IF r.fail
    THEN [fail |-> TRUE, pat |-> [p EXCEPT !.sub = r.pat], diags |-> r.diags]
    ELSE [fail |-> FALSE, pat |-> setType([p EXCEPT !.sub = r.pat], r.pat.ty),
          diags |-> r.diags]

checkFullyTyped(p, d) ==
  CASE p.kind = "Typed" -> TypedCase(p, d)
    [] p.kind = "Paren" -> checkedParen(p, checkFullyTyped(p.sub, d))
    [] p.kind = "Tuple" -> checkTupleFields(p, 1, <<>>, d)
    [] p.kind \in {"Named", "Any"} -> UntypedLeaf(p, d)

(***************************************************************************)
(* Parser results: status "ok" carries a pattern, "parse" is               *)
(* isParseError(), "sema" is isSemaError(); neither failure carries one.   *)
(***************************************************************************)
Success(pat, Q) == [status |-> "ok", pat |-> pat, P |-> Q, elts |-> <<>>]

ParseError(Q) == [status |-> "parse", pat |-> NoPattern, P |-> Q, elts |-> <<>>]

SemaError(Q, elts) == [status |-> "sema", pat |-> NoPattern, P |-> Q, elts |-> elts]

\* Variant: the default expression is not looked at.
IsParenWrap_IgnoreInit(elts) ==
  /\ Len(elts) = 1
  /\ getBoundName(elts[1].pat) = ""

IsParenWrap(elts) ==
  /\ Len(elts) = 1
  /\ elts[1].init = nullptr
  /\ getBoundName(elts[1].pat) = ""

\* Variant: end of input is taken for the closing parenthesis.
MissingRParen_EofCloses(ts, Q) == Tok(ts, Q.pos) \notin {")", "eof"}

MissingRParen(ts, Q) == Tok(ts, Q.pos) # ")"

\* Variant: the element loop is left without skipping.
AbortElts_NoSkip(ts, Q, elts, hasSemaError) ==
  [abort |-> TRUE, elts |-> elts, hasSemaError |-> hasSemaError, P |-> Q]

AbortElts(ts, Q, elts, hasSemaError) ==
  [abort |-> TRUE, elts |-> elts, hasSemaError |-> hasSemaError,
   P |-> skipUntil(ts, Q, ")")]

\* Variant: an element is appended whatever the pattern's outcome.
AppendElt_Always(elts, r, init) == Append(elts, TuplePatternElt(r.pat, init))

AppendElt(elts, r, init) ==
  IF r.status = "sema" THEN elts ELSE Append(elts, TuplePatternElt(r.pat, init))

TupleResult(lp, elts, hasSemaError, Q) ==
  IF hasSemaError THEN SemaError(Q, elts)
  ELSE IF IsParenWrap(elts) THEN [Success(ParenPattern(lp, elts[1].pat), Q) EXCEPT !.elts = elts]
  ELSE [Success(TuplePatternCreate(lp, elts), Q) EXCEPT !.elts = elts]

RECURSIVE parsePattern(_, _), parsePatternAtom(_, _), parsePatternTuple(_, _),
          parseTupleElts(_, _, _, _), parsedElt(_, _, _, _), parsedInit(_, _, _, _, _),
          nextElt(_, _, _, _)

\* parsePattern after the type annotation was parsed as ty.
annotated(pat, ty) ==
  IF ty.fail THEN ParseError(ty.P)
  ELSE IF pat.status # "sema" THEN Success(TypedPattern(pat.pat, ty.type), ty.P)
  ELSE [pat EXCEPT !.P = ty.P]

\* parsePattern after the atom was parsed as pat.
parsedAtom(ts, pat) ==
  IF pat.status = "parse" THEN ParseError(pat.P)
  ELSE IF Tok(ts, pat.P.pos) = ":"
    THEN annotated(pat, parseType(ts, consumeToken(pat.P)))
    ELSE pat

parsePattern(ts, Q) == parsedAtom(ts, parsePatternAtom(ts, Q))

parsePatternAtom(ts, Q) ==
  IF IsLParen(Tok(ts, Q.pos)) THEN parsePatternTuple(ts, Q)
  ELSE IF IsIdentifier(Tok(ts, Q.pos)) THEN
    IF Tok(ts, Q.pos) = "_" THEN Success(AnyPattern(Q.pos), consumeToken(Q))
    ELSE Success(NamedPattern(Tok(ts, Q.pos), Q.pos), consumeToken(Q))
  ELSE ParseError(diagnose(Q, Q.pos, "expected_pattern"))

\* while (consumeIf(tok::comma)): the next iteration, or the end of the loop
\* as [abort, elts, hasSemaError, P].
nextElt(ts, Q, elts, hasSemaError) ==
  IF Tok(ts, Q.pos) = ","
    THEN parseTupleElts(ts, consumeToken(Q), elts, hasSemaError)
    ELSE [abort |-> FALSE, elts |-> elts, hasSemaError |-> hasSemaError, P |-> Q]

\* The loop body after the optional '=' expr was parsed as initR.
parsedInit(ts, pat, initR, elts, hasSemaError) ==
  IF initR.status = "parse" THEN AbortElts(ts, initR.P, elts, hasSemaError)
  ELSE nextElt(ts, initR.P,
               AppendElt(elts, pat, IF initR.status = "ok" THEN initR.expr ELSE nullptr),
               hasSemaError \/ initR.status = "sema" \/ pat.status = "sema")

\* The loop body after the element's pattern was parsed as pat.
parsedElt(ts, pat, elts, hasSemaError) ==
  IF pat.status = "parse" THEN AbortElts(ts, pat.P, elts, hasSemaError)
  ELSE parsedInit(ts, pat,
                  IF Tok(ts, pat.P.pos) = "="
                    THEN parseExpr(ts, consumeToken(pat.P), "expected_initializer_expr")
                    ELSE [status |-> "ok", expr |-> nullptr, P |-> pat.P],
                  elts, hasSemaError)

\* One iteration of the do-while element loop and, on ',', the next ones.
parseTupleElts(ts, Q, elts, hasSemaError) ==
  parsedElt(ts, parsePattern(ts, Q), elts, hasSemaError)

\* parsePatternTuple after the element loop ended as loop.
parsedElts(ts, lp, loop) ==
  IF loop.abort THEN ParseError(loop.P)
  ELSE IF MissingRParen(ts, loop.P) THEN
    ParseError(skipUntil(ts, diagnose(loop.P, loop.P.pos,
                                      "expected_rparen_tuple_pattern_list"), ")"))
  ELSE TupleResult(lp, loop.elts, loop.hasSemaError, consumeToken(loop.P))

parsePatternTuple(ts, Q) ==
  IF Tok(ts, Q.pos + 1) # ")"
    THEN parsedElts(ts, Q.pos, parseTupleElts(ts, consumeToken(Q), <<>>, FALSE))
    ELSE TupleResult(Q.pos, <<>>, FALSE, consumeToken(consumeToken(Q)))

(***************************************************************************)
(* parseFunctionSignature: returns [fail, params, type, P, clauses];       *)
(* clauses records the outcome of each parsePatternTuple call of the loop. *)
(***************************************************************************)
\* Variant: only tok::l_paren continues the clause loop.
ClauseFollows_NoSpace(ts, Q) == Tok(ts, Q.pos) = "("

ClauseFollows(ts, Q) == IsLParen(Tok(ts, Q.pos))

\* Variant: a softly failed clause leaves an empty tuple pattern.
PushClause_Placeholder(ps, pat) ==
  IF pat.status = "sema" THEN Append(ps, TuplePatternCreate(0, <<>>))
  ELSE Append(ps, pat.pat)

PushClause(ps, pat) ==
  IF pat.status = "sema" THEN ps ELSE Append(ps, pat.pat)

\* Variant: the pattern's type is used whatever the check said.
ParamType_NoRecovery(chk) == chk.pat.ty

ParamType(chk) ==
  IF chk.fail THEN TupleTypeGetEmpty ELSE chk.pat.ty

ImplicitReturnType == TupleTypeGetEmpty

RECURSIVE parseClauses(_, _, _, _, _), parsedClause(_, _, _, _, _)

\* The loop body after the clause was parsed as pat.
parsedClause(ts, pat, ps, hasSemaError, clauses) ==
  IF pat.status = "parse" THEN
    [abort |-> TRUE, params |-> ps, hasSemaError |-> hasSemaError,
     clauses |-> Append(clauses, pat.status), P |-> pat.P]
  ELSE IF ClauseFollows(ts, pat.P) THEN
    parseClauses(ts, pat.P, PushClause(ps, pat),
                 hasSemaError \/ pat.status = "sema", Append(clauses, pat.status))
  ELSE
    [abort |-> FALSE, params |-> PushClause(ps, pat),
     hasSemaError |-> hasSemaError \/ pat.status = "sema",
     clauses |-> Append(clauses, pat.status), P |-> pat.P]

parseClauses(ts, Q, ps, hasSemaError, clauses) ==
  parsedClause(ts, parsePatternTuple(ts, Q), ps, hasSemaError, clauses)

\* for (unsigned i = params.size(); i != 0; --i)
RECURSIVE buildFunctionType(_, _, _, _), checkedParam(_, _, _, _)

checkedParam(ps, i, ty, chk) ==
  buildFunctionType([ps EXCEPT ![i] = chk.pat], i - 1,
                    FunctionTypeGet(ParamType(chk), ty), chk.diags)

buildFunctionType(ps, i, ty, d) ==
  IF i = 0 THEN [params |-> ps, type |-> ty, diags |-> d]
  ELSE checkedParam(ps, i, ty, checkFullyTyped(ps[i], d))

\* parseFunctionSignature after the fold returned b.
builtType(loop, res, b) ==
  [fail |-> FALSE, params |-> b.params, type |-> b.type,
   P |-> [res.P EXCEPT !.diags = b.diags], clauses |-> loop.clauses]

\* parseFunctionSignature after the result type was settled as res.
parsedResult(loop, res, ty) ==
  IF res.fail THEN
    [fail |-> TRUE, params |-> loop.params, type |-> ty, P |-> res.P,
     clauses |-> loop.clauses]
  ELSE builtType(loop, res,
                 buildFunctionType(loop.params, Len(loop.params), res.type, res.P.diags))

\* parseFunctionSignature after the clause loop ended as loop.
parsedClauses(ts, loop, ty) ==
  IF loop.abort THEN
    [fail |-> TRUE, params |-> loop.params, type |-> ty, P |-> loop.P,
     clauses |-> loop.clauses]
  ELSE parsedResult(loop,
                    IF Tok(ts, loop.P.pos) = "->"
                      THEN parseType(ts, consumeToken(loop.P))
                      ELSE [fail |-> FALSE, type |-> ImplicitReturnType, P |-> loop.P],
                    ty)

parseFunctionSignature(ts, Q, ps, ty) ==
  parsedClauses(ts, parseClauses(ts, Q, ps, FALSE, <<>>), ty)

(***************************************************************************)
(* Inputs: token sequences written from the grammar, each as written or    *)
(* with one token missing, and pattern trees over the five variants.       *)
(***************************************************************************)
EltToks ==
  { <<"_">>, <<"x">>, <<"x", ":", "Int">>, <<"_", ":", "Int">>,
    <<"x", "=", "e">>, <<"_", "=", "e">>, <<"x", ":", "Int", "=", "e">>,
    <<"x", "=", "undef">>,
    <<"(", "_", ")">>, <<"(", "x", ":", "Int", ")">>,
    <<"(", "_", "=", "undef", ")">>, <<"(", "_", ")", ":", "Int">> }

ClauseToks ==
  { <<"(", ")">>, <<"(", "x", ":", "Int", ")">>, <<"(", "x", ")">>,
    <<"(", "_", "=", "undef", ")">>, <<" (", "_", ":", "Int", ")">> }

ArrowToks == { <<>>, <<"->", "Int">> }

SeqsUpTo(S, lo, hi) == UNION { [1..k -> S] : k \in lo..hi }

RECURSIVE Join(_, _, _)
Join(parts, i, sep) ==
  IF i > Len(parts) THEN <<>>
  ELSE (IF i > 1 THEN sep ELSE <<>>) \o parts[i] \o Join(parts, i + 1, sep)

Delete(s, i) == SubSeq(s, 1, i - 1) \o SubSeq(s, i + 1, Len(s))

TupleInput(parts) ==
  [kind |-> "tuple", parts |-> parts, arrow |-> <<>>, del |-> 0,
   toks |-> <<"(">> \o Join(parts, 1, <<",">>) \o <<")">>]

SigInput(parts, arrow) ==
  [kind |-> "sig", parts |-> parts, arrow |-> arrow, del |-> 0,
   toks |-> Join(parts, 1, <<>>) \o arrow]

PatternInput(e) ==
  [kind |-> "pattern", parts |-> << e >>, arrow |-> <<>>, del |-> 0, toks |-> e]

Examples ==
  { TupleInput(<< <<"a", ":", "Int">>, <<"b", ":", "String">> >>),
    SigInput(<< <<"(", "x", ")">>, <<"(", "y", ":", "Int", ")">> >>, <<"->", "Int">>),
    SigInput(<< <<"(", "x", ":", "Int", ")">> >>, <<"->", "Int">>) }

WellFormed ==
  { TupleInput(parts) : parts \in SeqsUpTo(EltToks, 0, MaxElts) }
  \cup { SigInput(parts, a) : parts \in SeqsUpTo(ClauseToks, 1, MaxClauses), a \in ArrowToks }
  \cup { PatternInput(e) : e \in EltToks }
  \cup Examples

\* The input with its i-th token missing; i = 0 leaves it as written.
Damaged(in, i) ==
  IF i = 0 THEN in ELSE [in EXCEPT !.del = i, !.toks = Delete(@, i)]

Leaf0 == { [kind |-> "Any", loc |-> 0, ty |-> NullType],
           [kind |-> "Named", name |-> "a", loc |-> 0, ty |-> NullType] }

TypedOver(S) ==
  { TypedPattern(p, NameType("Int")) : p \in S }
  \cup { TypedPattern(NamedPattern("b", 0), NameType("String")) }

ParenOver(S) == { ParenPattern(0, p) : p \in S }

TupleOver(S, inits) ==
  { TuplePatternCreate(0, es) :
      es \in SeqsUpTo({ TuplePatternElt(p, i) : p \in S, i \in inits }, 0, MaxTreeElts) }

Level1 == Leaf0 \cup TypedOver(Leaf0) \cup ParenOver(Leaf0)
            \cup TupleOver(Leaf0 \cup TypedOver(Leaf0), {nullptr})

InnerTuples ==
  { TuplePatternCreate(0, <<>>),
    TuplePatternCreate(0, << TuplePatternElt(AnyPattern(0), nullptr) >>),
    TuplePatternCreate(0, << TuplePatternElt(TypedPattern(NamedPattern("a", 0),
                                                          NameType("Int")), "e") >>) }

Trees ==
  Level1 \cup TypedOver(Level1) \cup ParenOver(Level1)
    \cup TupleOver(Leaf0 \cup TypedOver(Leaf0) \cup ParenOver(TypedOver(Leaf0))
                     \cup InnerTuples,
                   {nullptr, "e"})

TreeInput == [kind |-> "tree", parts |-> <<>>, arrow |-> <<>>, del |-> 0, toks |-> <<>>]

(***************************************************************************)
(* State machine                                                           *)
(***************************************************************************)
NoGhost == [elts |-> <<>>, clauses |-> <<>>]

NoPrev == [pat |-> NoPattern, fail |-> FALSE]

P0 == [pos |-> 1, diags |-> <<>>, skips |-> 0]

Init ==
  /\ \/ /\ \E in \in WellFormed : \E i \in 0..Len(in.toks) : input = Damaged(in, i)
        /\ pattern = NoPattern
        /\ op = "none"
     \/ /\ input = TreeInput
        /\ pattern \in Trees
        /\ op = "tree"
  /\ P = P0
  /\ status = IF op = "tree" THEN "ok" ELSE "none"
  /\ params = <<>>
  /\ type = NullType
  /\ failed = FALSE
  /\ ghost = NoGhost
  /\ runs = 0
  /\ prev = NoPrev

Entered(name, r) ==
  /\ op = "none"
  /\ op' = name
  /\ P' = r.P
  /\ status' = r.status
  /\ pattern' = r.pat
  /\ ghost' = [ghost EXCEPT !.elts = r.elts]
  /\ UNCHANGED <<input, params, type, failed, runs, prev>>

ParsePatternAtom == Entered("parsePatternAtom", parsePatternAtom(input.toks, P))

ParsePattern == Entered("parsePattern", parsePattern(input.toks, P))

ParsePatternTuple ==
  /\ IsLParen(Tok(input.toks, P.pos))
  /\ Entered("parsePatternTuple", parsePatternTuple(input.toks, P))

SignatureEntered(r) ==
  /\ op = "none"
  /\ op' = "parseFunctionSignature"
  /\ P' = r.P
  /\ failed' = r.fail
  /\ status' = IF r.fail THEN "parse" ELSE "ok"
  /\ params' = r.params
  /\ type' = r.type
  /\ ghost' = [ghost EXCEPT !.clauses = r.clauses]
  /\ UNCHANGED <<input, pattern, runs, prev>>

ParseFunctionSignature ==
  /\ IsLParen(Tok(input.toks, P.pos))
  /\ SignatureEntered(parseFunctionSignature(input.toks, P, params, type))

Checked(r) ==
  /\ pattern' = r.pat
  /\ failed' = r.fail
  /\ P' = [P EXCEPT !.diags = r.diags]
  /\ prev' = [pat |-> pattern, fail |-> failed]
  /\ runs' = runs + 1
  /\ UNCHANGED <<input, op, status, params, type, ghost>>

CheckFullyTyped ==
  /\ op \in {"tree", "parsePatternAtom", "parsePattern", "parsePatternTuple"}
  /\ status = "ok"
  /\ runs < MaxRuns
  /\ Checked(checkFullyTyped(pattern, P.diags))

Next ==
  \/ ParsePatternAtom
  \/ ParsePattern
  \/ ParsePatternTuple
  \/ ParseFunctionSignature
  \/ CheckFullyTyped

Spec == Init /\ [][Next]_vars

TypeOK == runs \in 0..MaxRuns

(***************************************************************************)
(* Vocabulary of the properties                                            *)
(***************************************************************************)
Range(s) == { s[i] : i \in 1..Len(s) }

ParseOps == {"parsePatternAtom", "parsePattern", "parsePatternTuple", "parseFunctionSignature"}

AsWritten == input.kind \in {"tuple", "sig"} /\ input.del = 0

\* The parameter clauses of the input as written.
ClauseParts ==
  IF input.kind = "sig" THEN input.parts ELSE << TupleInput(input.parts).toks >>

NClauses == Len(ClauseParts)

RECURSIVE ClauseStart(_)
ClauseStart(i) == IF i = 1 THEN 1 ELSE ClauseStart(i - 1) + Len(ClauseParts[i - 1])

\* Position, in the input as written, of clause j's closing parenthesis.
ClauseEnd(j) == ClauseStart(j) + Len(ClauseParts[j]) - 1

\* A clause or element whose text holds an expression the expression parser
\* accepts syntactically and rejects semantically.
HasSemaExpr(ts) == Range(ts) \cap Unresolved # {}

NoSemaExpr == ~HasSemaExpr(input.toks)

OkClauses == { i \in 1..NClauses : ~HasSemaExpr(ClauseParts[i]) }

\* Every Any/Named leaf below p has a Typed ancestor (or p is Typed).
RECURSIVE Dominated(_)
Dominated(p) ==
  CASE p.kind = "Typed" -> TRUE
    [] p.kind = "Paren" -> Dominated(p.sub)
    [] p.kind = "Tuple" -> \A i \in 1..Len(p.elts) : Dominated(p.elts[i].pat)
    [] OTHER -> FALSE

RECURSIVE FirstUntypedLeaf(_)
FirstUntypedLeaf(p) ==
  CASE p.kind = "Paren" -> FirstUntypedLeaf(p.sub)
    [] p.kind = "Tuple" ->
         LET U == { i \in 1..Len(p.elts) : ~Dominated(p.elts[i].pat) }
             m == CHOOSE i \in U : \A j \in U : i <= j
         IN FirstUntypedLeaf(p.elts[m].pat)
    [] OTHER -> p.loc

RECURSIVE FnDepth(_)
FnDepth(t) == IF t.k = "Fn" THEN 1 + FnDepth(t.out) ELSE 0

\* The type i function arrows below the root (i = 0 is the root).
RECURSIVE FnOut(_, _)
FnOut(t, i) == IF i = 0 THEN t ELSE FnOut(t.out, i - 1)

FnParam(t, i) == FnOut(t, i - 1).in

WrittenReturnType ==
  IF input.arrow = <<>> THEN TupleTypeGetEmpty ELSE NameType(input.arrow[2])

IsUntypedDiag(d) == d.id = "untyped_pattern_in_function_signature"

UntypedDiags == SelectSeq(P.diags, IsUntypedDiag)

HasDiag(id) == \E i \in 1..Len(P.diags) : P.diags[i].id = id

\* Element text e carries a default value of its own (not one of a sub-tuple).
WrittenDefault(e) == Len(e) >= 2 /\ e[Len(e) - 1] = "="

\* Element text e is a sub-tuple whose parse fails softly.
SoftSubTuple(e) == e[1] = "(" /\ HasSemaExpr(e)

\* C1: when parsePatternTuple succeeds, the result is Paren exactly when the
\* parse produced one element with no default and an empty bound name, and is
\* Tuple otherwise; the elements produced are those written in the input.
C1_ParenIffSingleAnonymous ==
  (op = "parsePatternTuple" /\ status = "ok" /\ runs = 0) =>
    LET es == ghost.elts
        single == /\ Len(es) = 1
                  /\ es[1].init = nullptr
                  /\ getBoundName(es[1].pat) = ""
    IN /\ pattern.kind \in {"Paren", "Tuple"}
       /\ pattern.kind = "Paren" <=> single
       /\ pattern.kind = "Paren" => pattern.sub = es[1].pat
       /\ pattern.kind = "Tuple" => pattern.elts = es
       /\ (input.kind = "tuple" /\ input.del = 0) =>
            /\ Len(es) = Len(input.parts)
            /\ \A i \in 1..Len(es) :
                 /\ es[i].init # nullptr <=> WrittenDefault(input.parts[i])
                 /\ getBoundName(es[i].pat) = ""
                      <=> input.parts[i][1] \in {"_", "("}

C1_Witness ==
  /\ op = "parsePatternTuple" /\ status = "ok" /\ runs = 0
  /\ pattern.kind = "Paren"
  /\ pattern.sub.kind = "Paren"

\* C2: checkFullyTyped succeeds exactly on the trees in which every Any/Named
\* leaf has a Typed ancestor (a Typed root included), and fails on the others.
C2_SuccessIffDominated ==
  (runs >= 1) => (failed <=> ~Dominated(prev.pat))

C2_Witness ==
  /\ runs = 1 /\ ~failed /\ op = "tree"
  /\ pattern.kind = "Tuple" /\ Len(pattern.elts) = 2
  /\ pattern.elts[1].pat.kind = "Paren"
  /\ pattern.elts[2].pat.kind = "Tuple"

RECURSIVE TupleTypesMatch(_)
TupleTypesMatch(p) ==
  CASE p.kind = "Paren" -> TupleTypesMatch(p.sub)
    [] p.kind = "Tuple" ->
         /\ p.ty.k = "Tuple"
         /\ Len(p.ty.elts) = Len(p.elts)
         /\ \A i \in 1..Len(p.elts) :
              /\ p.elts[i].pat.ty # NullType
              /\ p.ty.elts[i].ty = p.elts[i].pat.ty
              /\ p.ty.elts[i].name = getBoundName(p.elts[i].pat)
              /\ p.ty.elts[i].init = p.elts[i].init
              /\ TupleTypesMatch(p.elts[i].pat)
    [] OTHER -> TRUE

C5_TupleTypeComponents ==
  (runs >= 1 /\ ~failed) =>
    /\ TupleTypesMatch(pattern)
    /\ (op = "parsePatternTuple"
        /\ input.toks = <<"(", "a", ":", "Int", ",", "b", ":", "String", ")">>) =>
         pattern.ty.elts = << TupleTypeElt(NameType("Int"), "a", nullptr),
                              TupleTypeElt(NameType("String"), "b", nullptr) >>

C5_Witness ==
  /\ runs = 1 /\ ~failed
  /\ op = "parsePatternTuple"
  /\ input.toks = <<"(", "a", ":", "Int", ",", "b", ":", "String", ")">>
  /\ pattern.kind = "Tuple"

\* C6: a run of checkFullyTyped on a tree a previous run succeeded on also
\* succeeds and leaves every node's type as it was.
C6_Idempotent ==
  (runs >= 2 /\ ~prev.fail) => (~failed /\ pattern = prev.pat)

C6_Witness ==
  /\ runs = 2 /\ ~prev.fail /\ ~failed
  /\ pattern.kind = "Tuple" /\ Len(pattern.elts) = 2
  /\ pattern.elts[1].pat.kind = "Paren"
  /\ pattern.elts[2].pat.kind = "Tuple"
  /\ pattern.elts[2].init # nullptr

\* C7: a tuple pattern whose element list is not followed by ')' gets the
\* "expected ')'" diagnostic, a skip to the closing parenthesis and a hard
\* failure with no pattern; an enclosing parseFunctionSignature then fails
\* too and adds no pattern for that clause to the parameter list.
C7_MissingRParen ==
  /\ (op = "parsePatternTuple" /\ HasDiag("expected_rparen_tuple_pattern_list")) =>
       /\ status = "parse"
       /\ pattern = NoPattern
       /\ P.skips >= 1
  /\ (op = "parsePatternTuple" /\ input.kind = "tuple" /\ Len(input.parts) >= 1
      /\ input.del = ClauseEnd(1)) =>
       /\ status = "parse"
       /\ \E k \in 1..Len(P.diags) :
            P.diags[k] =
              [id |-> "expected_rparen_tuple_pattern_list", loc |-> Len(input.toks) + 1]
  /\ (op = "parseFunctionSignature" /\ HasDiag("expected_rparen_tuple_pattern_list")) =>
       /\ failed
       /\ type = NullType
       /\ ghost.clauses[Len(ghost.clauses)] = "parse"
       /\ Len(params) =
            Cardinality({ i \in 1..Len(ghost.clauses) : ghost.clauses[i] = "ok" })
  /\ (op = "parseFunctionSignature" /\ input.kind = "sig") =>
       \A j \in 1..NClauses :
         (input.del = ClauseEnd(j)) =>
           /\ failed
           /\ P.skips >= 1
           /\ Len(params) = Cardinality({ i \in OkClauses : i < j })
           /\ \A i \in 1..Len(params) : params[i].loc < ClauseStart(j)

C7_Witness ==
  /\ op = "parseFunctionSignature" /\ input.kind = "sig"
  /\ NClauses = 2
  /\ input.del = ClauseEnd(2)
  /\ HasDiag("expected_rparen_tuple_pattern_list")
  /\ failed
  /\ Len(params) = 1
  /\ P.skips = 1

\* C8 as stated: a tuple parse that ends in a soft failure still carries a
\* built pattern tree holding a best-effort element for every element.
C8_AsStated ==
  (op = "parsePatternTuple" /\ status = "sema") =>
    /\ pattern.kind \in {"Paren", "Tuple"}
    /\ (input.kind = "tuple" /\ input.del = 0) => Len(ghost.elts) = Len(input.parts)

\* C8 amended: a soft failure of an element's pattern or default expression
\* does not abort the element loop and triggers no skipping: the remaining
\* elements are parsed up to the closing parenthesis; an element is appended
\* (without a default when its default failed softly) unless its own pattern
\* failed softly; the result is a soft failure that carries no pattern.
C8_SoftFailureDropsTree ==
  /\ (op = "parsePatternTuple" /\ status = "sema") =>
       /\ pattern = NoPattern
       /\ P.skips = 0
  /\ (op = "parsePatternTuple" /\ input.kind = "tuple" /\ input.del = 0
      /\ HasSemaExpr(input.toks)) =>
       LET keep == { i \in 1..Len(input.parts) : ~SoftSubTuple(input.parts[i]) }
           Rank(i) == Cardinality({ j \in keep : j <= i })
       IN /\ status = "sema"
          /\ P.pos = Len(input.toks) + 1
          /\ Len(ghost.elts) = Cardinality(keep)
          /\ \A i \in keep :
               ghost.elts[Rank(i)].init =
                 IF WrittenDefault(input.parts[i]) /\ ~HasSemaExpr(input.parts[i])
                   THEN input.parts[i][Len(input.parts[i])]
                   ELSE nullptr

C8_Witness ==
  /\ op = "parsePatternTuple" /\ status = "sema"
  /\ input.kind = "tuple" /\ input.del = 0
  /\ Len(input.parts) = 2
  /\ SoftSubTuple(input.parts[1])
  /\ WrittenDefault(input.parts[2]) /\ ~HasSemaExpr(input.parts[2])
  /\ Len(ghost.elts) = 1
  /\ pattern = NoPattern

\* C9 as stated: the signature stays structurally complete, one parameter
\* pattern and one function level for every clause parsed without hard
\* failure, a softly failed clause included.
C9_AsStated ==
  (op = "parseFunctionSignature" /\ ~failed) =>
    /\ Len(params) = Len(ghost.clauses)
    /\ FnDepth(type) = Len(ghost.clauses)

\* C9 amended: a soft failure of a clause neither stops the clause loop nor
\* makes the signature fail, and the following clauses are parsed; the
\* softly failed clause itself is dropped, so the parameter list and the
\* curried type have one entry / level per clause that parsed successfully.
C9_SoftClauseDropped ==
  /\ (op = "parseFunctionSignature" /\ ~failed) =>
       LET ok == { i \in 1..Len(ghost.clauses) : ghost.clauses[i] = "ok" } IN
       /\ \A i \in 1..Len(ghost.clauses) : ghost.clauses[i] \in {"ok", "sema"}
       /\ Len(params) = Cardinality(ok)
       /\ FnDepth(type) = Cardinality(ok)
  /\ (op = "parseFunctionSignature" /\ AsWritten) =>
       /\ ~failed
       /\ P.pos = Len(input.toks) + 1
       /\ Len(ghost.clauses) = NClauses
       /\ \A i \in 1..NClauses :
            ghost.clauses[i] = IF i \in OkClauses THEN "ok" ELSE "sema"
       /\ Len(params) = Cardinality(OkClauses)
       /\ \A i \in OkClauses :
            params[Cardinality({ j \in OkClauses : j <= i })].loc = ClauseStart(i)

C9_Witness ==
  /\ op = "parseFunctionSignature" /\ AsWritten /\ input.kind = "sig"
  /\ ~failed
  /\ NClauses = 3
  /\ ghost.clauses = <<"ok", "sema", "ok">>
  /\ Len(params) = 2
  /\ FnDepth(type) = 2

\* C10 as stated: every parse ending in a hard failure has skipped tokens at
\* least once before its entry point returns, and no parse ending in a soft
\* failure has.
C10_AsStated ==
  (op \in ParseOps) =>
    /\ status = "parse" => P.skips >= 1
    /\ status = "sema" => P.skips = 0

\* C10 amended: every hard failure returned by parsePatternTuple, and every
\* failure of parseFunctionSignature caused by a failed clause, has skipped
\* to the closing parenthesis at least once; parsePatternAtom and
\* parsePattern report a hard failure of their own (bad atom, failed type
\* annotation outside any tuple) without skipping, and so does
\* parseFunctionSignature for a failed return type; no soft failure skips.
C10_SkipOnlyInTuple ==
  /\ (op = "parsePatternTuple" /\ status = "parse") => P.skips >= 1
  /\ (op = "parseFunctionSignature" /\ failed) =>
       IF ghost.clauses[Len(ghost.clauses)] = "parse"
         THEN P.skips >= 1
         ELSE P.skips = 0 /\ HasDiag("expected_type")
  /\ (op \in {"parsePatternAtom", "parsePattern"} /\ status = "parse") =>
       /\ ~IsLParen(Tok(input.toks, 1)) => P.skips = 0
       /\ P.skips = 0 =>
            \/ ~IsLParen(Tok(input.toks, 1))
            \/ op = "parsePattern" /\ P.diags[Len(P.diags)].id = "expected_type"
  /\ (op = "parsePattern" /\ input.kind = "pattern" /\ input.del = Len(input.toks) + 1
      /\ Len(input.toks) >= 2 /\ input.toks[Len(input.toks)] = ":") =>
       status = "parse" /\ P.skips = 0
  /\ (op \in ParseOps /\ status = "sema") => P.skips = 0

C10_Witness ==
  /\ op = "parsePatternTuple" /\ status = "parse"
  /\ P.skips = 1
  /\ HasDiag("expected_initializer_expr")

====
